---- MODULE Spec2Model ----
(***************************************************************************)
(* Model of installer.py: install() and uninstall() of the "dpe" keyboard  *)
(* layout.  Two target files are patched: the symbols file (flat text) and *)
(* the rules file (XML), each after a timestamped backup.                  *)
(*                                                                         *)
(* Text is a sequence of characters over Chars: "a" is any ordinary        *)
(* character, "n" is the newline, "B" stands for the token '// DPE-BEGIN'  *)
(* and "E" for the token '// DPE-END' (a token is one atomic character, so *)
(* Python's `TOKEN in line` is membership of the character in the line).   *)
(*                                                                         *)
(* The rules file is the sequence of <layout> children of the root.  Each  *)
(* layout has the text of configItem/name ("none" when that element is     *)
(* missing), of configItem/shortDescription, and its variantList: hasVl    *)
(* says whether the <variantList> child exists, vl lists its child nodes:  *)
(* "v", "w" ordinary <variant>s, "dpe" the <variant> built by install(),   *)
(* "cB" the comment ' DPE-BEGIN ', "cE" the comment ' DPE-END '.           *)
(***************************************************************************)
EXTENDS Integers, Sequences, FiniteSets, TLC

\* ---------------------------------------------------------------- bounds
\* longest initial symbols file, in characters
MaxLen == 3
\* most variantList children in an initial rules file
MaxKids == 2
\* most layouts in an initial rules file
MaxLayouts == 2
\* install()/uninstall() runs in one behaviour
MaxOps == 3
\* the clock runs over the seconds 1..MaxTime
MaxTime == 2

\* ------------------------------------------------------------- constants
BEGIN_COMMENT_SYM == "B"
END_COMMENT_SYM == "E"
NL == "n"
Chars == {"a", NL, BEGIN_COMMENT_SYM, END_COMMENT_SYM}
VARIANT_NAME == "dpe"
CommentBegin == "cB"
CommentEnd == "cE"
InitNodes == {"v", "w", CommentBegin, CommentEnd}

VARIABLES
    symbols,      \* content of SYMBOLS_FILE (<<>> when it does not exist)
    symExists,    \* SYMBOLS_FILE exists
    rules,        \* content of RULES_FILE as serialized (comments included)
    rulesExists,  \* RULES_FILE exists
    payload,      \* content of LAYOUT_FILE
    bkSym,        \* BACKUP_DIR entries us.<ts>.bak: timestamp -> content
    bkRules,      \* BACKUP_DIR entries evdev.xml.<ts>.bak: timestamp -> content
    now,          \* the second timestamp() returns
    pc,           \* position of the running command ("idle": none running)
    run,          \* snapshot taken when the running command started
    log           \* history: one record per finished run

vars == <<symbols, symExists, rules, rulesExists, payload, bkSym, bkRules,
          now, pc, run, log>>

\* ------------------------------------------------------------ text file
SeqsUpTo(S, n) == UNION {[1..k -> S] : k \in 0..n}

HasTok(line, tok) == \E i \in DOMAIN line : line[i] = tok

\* length of the first line of a non-empty text, its newline included
RECURSIVE LineEnd(_, _)
LineEnd(text, i) ==
    IF i >= Len(text) \/ text[i] = NL THEN i ELSE LineEnd(text, i + 1)

\* f.readlines(): the lines of the text, each keeping its newline
RECURSIVE readlines(_)
readlines(text) ==
    IF text = <<>> THEN <<>>
    ELSE LET e == LineEnd(text, 1)
         IN  <<SubSeq(text, 1, e)>> \o readlines(SubSeq(text, e + 1, Len(text)))

\* f.writelines(out): the lines written one after the other
RECURSIVE writelines(_)
writelines(out) ==
    IF out = <<>> THEN <<>> ELSE Head(out) \o writelines(Tail(out))

\* install(): the three sym.write calls on the file opened in append mode
AppendBlock(text, layout_data) ==
    text \o <<NL, BEGIN_COMMENT_SYM, NL>> \o layout_data
         \o <<NL, END_COMMENT_SYM, NL>>

\* variant of StripLoop without the `continue` after `skip = False`: the
\* end-token line falls through to the append
RECURSIVE StripLoop_KeepEnd(_, _, _)
StripLoop_KeepEnd(lines, skip, out) ==
    IF lines = <<>> THEN out
    ELSE LET line == Head(lines)
         IN  IF HasTok(line, BEGIN_COMMENT_SYM)
               THEN StripLoop_KeepEnd(Tail(lines), TRUE, out)
             ELSE IF HasTok(line, END_COMMENT_SYM)
               THEN StripLoop_KeepEnd(Tail(lines), FALSE, Append(out, line))
             ELSE IF ~skip
               THEN StripLoop_KeepEnd(Tail(lines), skip, Append(out, line))
             ELSE StripLoop_KeepEnd(Tail(lines), skip, out)

\* uninstall(): the loop over lines with the skip flag
RECURSIVE StripLoop(_, _, _)
StripLoop(lines, skip, out) ==
    IF lines = <<>> THEN out
    ELSE LET line == Head(lines)
         IN  IF HasTok(line, BEGIN_COMMENT_SYM)
               THEN StripLoop(Tail(lines), TRUE, out)
             ELSE IF HasTok(line, END_COMMENT_SYM)
               THEN StripLoop(Tail(lines), FALSE, out)
             ELSE IF ~skip
               THEN StripLoop(Tail(lines), skip, Append(out, line))
             ELSE StripLoop(Tail(lines), skip, out)

RemoveBlock(text) == writelines(StripLoop(readlines(text), FALSE, <<>>))

\* ------------------------------------------------------------- XML file
IsCommentNode(node) == node \in {CommentBegin, CommentEnd}

RECURSIVE DropComments(_)
DropComments(kids) ==
    IF kids = <<>> THEN <<>>
    ELSE IF IsCommentNode(Head(kids)) THEN DropComments(Tail(kids))
    ELSE <<Head(kids)>> \o DropComments(Tail(kids))

\* ET.parse(RULES_FILE): the default parser builds no node for a comment
parse(doc) ==
    [i \in DOMAIN doc |-> [doc[i] EXCEPT !.vl = DropComments(doc[i].vl)]]

\* variant of FindUs that stops at the last layout whose name is 'us'
RECURSIVE FindUs_Last(_, _)
FindUs_Last(tree, i) ==
    IF i > Len(tree) THEN 0
    ELSE LET r == FindUs_Last(tree, i + 1)
         IN  IF r # 0 THEN r
             ELSE IF tree[i].name # "none" /\ tree[i].name = "us" THEN i
             ELSE 0

\* the layout the two loops stop at: the first one whose name is 'us'
RECURSIVE FindUs(_, _)
FindUs(tree, i) ==
    IF i > Len(tree) THEN 0
    ELSE IF tree[i].name # "none" /\ tree[i].name = "us" THEN i
    ELSE FindUs(tree, i + 1)

\* list.insert(i, x)
ListInsert(l, i, x) ==
    LET k == IF i > Len(l) THEN Len(l) ELSE i
    IN  SubSeq(l, 1, k) \o <<x>> \o SubSeq(l, k + 1, Len(l))

\* variant of InsertVariant that appends the three nodes
InsertVariant_Append(kids) ==
    kids \o <<CommentBegin, VARIANT_NAME, CommentEnd>>

\* the three variantList.insert calls of install()
InsertVariant(kids) ==
    ListInsert(ListInsert(ListInsert(kids, 0, CommentBegin), 1, VARIANT_NAME),
               2, CommentEnd)

\* variant of InstallXml that skips a layout without variantList and still
\* writes the tree
InstallXml_SkipNoVl(doc) ==
    LET tree == parse(doc)
        t == FindUs(tree, 1)
    IN  IF t = 0 \/ ~tree[t].hasVl
          THEN [outcome |-> "ok", wrote |-> TRUE, doc |-> tree]
        ELSE [outcome |-> "ok", wrote |-> TRUE,
              doc |-> [tree EXCEPT ![t].vl = InsertVariant(tree[t].vl)]]

\* install(), from ET.parse to tree.write: the outcome and the file content
InstallXml(doc) ==
    LET tree == parse(doc)
        t == FindUs(tree, 1)
    IN  IF t = 0 THEN [outcome |-> "ok", wrote |-> TRUE, doc |-> tree]
        ELSE IF ~tree[t].hasVl
          THEN [outcome |-> "AttributeError", wrote |-> FALSE, doc |-> doc]
        ELSE [outcome |-> "ok", wrote |-> TRUE,
              doc |-> [tree EXCEPT ![t].vl = InsertVariant(tree[t].vl)]]

\* uninstall(), from ET.parse to tree.write.  list(variantList) raises
\* TypeError when variantList is None; isinstance(elem, ET.Comment) raises
\* TypeError on the first child, ET.Comment being a function and not a type,
\* so the removal of the slice is never reached.
UninstallXml(doc) ==
    LET tree == parse(doc)
        t == FindUs(tree, 1)
    IN  IF t = 0 THEN [outcome |-> "ok", wrote |-> TRUE, doc |-> tree]
        ELSE IF ~tree[t].hasVl
          THEN [outcome |-> "TypeError", wrote |-> FALSE, doc |-> doc]
        ELSE IF tree[t].vl # <<>>
          THEN [outcome |-> "TypeError", wrote |-> FALSE, doc |-> doc]
        ELSE [outcome |-> "ok", wrote |-> TRUE, doc |-> tree]

\* --------------------------------------------------------------- backups
\* backup_file(path): shutil.copy2 to <fname>.<timestamp()>.bak, which
\* replaces an entry of that name; nothing is copied when path is missing
BackupFile(dir, exists, content, ts) ==
    IF exists
      THEN [t \in DOMAIN dir \cup {ts} |-> IF t = ts THEN content ELSE dir[t]]
      ELSE dir

\* the names in BACKUP_DIR: <<basename of the target file, timestamp>> stands
\* for the file name '<basename>.<timestamp>.bak'
DirNames(dirSym, dirRules) ==
    {<<"us", t>> : t \in DOMAIN dirSym}
    \cup {<<"evdev.xml", t>> : t \in DOMAIN dirRules}

\* the order of Python's sorted() on these names: the strings are compared
\* from the left, so 'evdev.xml...' comes before 'us...' and, for one
\* basename, the 14-digit timestamps decide
NameLess(x, y) ==
    \/ x[1] = "evdev.xml" /\ y[1] = "us"
    \/ x[1] = y[1] /\ x[2] < y[2]

RECURSIVE SortedNames(_)
SortedNames(S) ==
    IF S = {} THEN <<>>
    ELSE LET m == CHOOSE x \in S : \A y \in S \ {x} : NameLess(x, y)
         IN  <<m>> \o SortedNames(S \ {m})

\* list_backups(): the lines it prints, in order
list_backups == SortedNames(DirNames(bkSym, bkRules))

\* ------------------------------------------------------------ initial state
LayoutKinds == {<<"us", "en">>, <<"us", "xx">>, <<"de", "xx">>, <<"none", "xx">>}

Layouts ==
    {[name |-> k[1], sd |-> k[2], hasVl |-> TRUE, vl |-> s] :
        k \in LayoutKinds, s \in SeqsUpTo(InitNodes, MaxKids)}
    \cup {[name |-> k[1], sd |-> k[2], hasVl |-> FALSE, vl |-> <<>>] :
        k \in LayoutKinds}

RECURSIVE KidCount(_)
KidCount(doc) ==
    IF doc = <<>> THEN 0 ELSE Len(Head(doc).vl) + KidCount(Tail(doc))

Docs == {d \in SeqsUpTo(Layouts, MaxLayouts) : KidCount(d) <= MaxKids}

Payloads == {<<"a">>, <<"a", NL>>, <<END_COMMENT_SYM, NL, "a">>}

DefaultDoc == <<[name |-> "us", sd |-> "en", hasVl |-> TRUE, vl |-> <<"v">>]>>
DefaultText == <<"a", NL>>
EmptyDir == [t \in {} |-> <<>>]
NoRun == [op |-> "none"]

Init ==
    /\ \/ /\ symExists = TRUE /\ rulesExists = TRUE
          /\ symbols \in SeqsUpTo(Chars, MaxLen)
          /\ payload \in Payloads
          /\ rules = DefaultDoc
       \/ /\ symExists = TRUE /\ rulesExists = TRUE
          /\ symbols = DefaultText
          /\ payload = <<"a">>
          /\ rules \in Docs
       \/ /\ symExists \in BOOLEAN /\ rulesExists \in BOOLEAN
          /\ ~(symExists /\ rulesExists)
          /\ symbols = IF symExists THEN DefaultText ELSE <<>>
          /\ payload = <<"a">>
          /\ rules = IF rulesExists THEN DefaultDoc ELSE <<>>
    /\ bkSym = EmptyDir
    /\ bkRules = EmptyDir
    /\ now = 1
    /\ pc = "idle"
    /\ run = NoRun
    /\ log = <<>>

\* ---------------------------------------------------------------- actions
Snapshot(op) ==
    [op |-> op, symBefore |-> symbols, symExisted |-> symExists,
     rulesBefore |-> rules, rulesExisted |-> rulesExists,
     bkSymBefore |-> bkSym, bkRulesBefore |-> bkRules, start |-> now]

Finish(outcome, rulesStep, wrote, symAfter, symExistsAfter, rulesAfter) ==
    /\ log' = Append(log, [op |-> run.op, outcome |-> outcome,
                           symBefore |-> run.symBefore,
                           symExisted |-> run.symExisted,
                           symAfter |-> symAfter,
                           symExists |-> symExistsAfter,
                           rulesBefore |-> run.rulesBefore,
                           rulesExisted |-> run.rulesExisted,
                           rulesAfter |-> rulesAfter,
                           rulesStep |-> rulesStep,
                           wroteRules |-> wrote,
                           bkSymBefore |-> run.bkSymBefore,
                           bkRulesBefore |-> run.bkRulesBefore,
                           bkSymAfter |-> bkSym,
                           bkRulesAfter |-> bkRules])
    /\ run' = NoRun
    /\ pc' = "idle"

\* install(): ensure_root(), backup_file(SYMBOLS_FILE)
InstallBackupSymbols ==
    /\ pc = "idle" /\ Len(log) < MaxOps
    /\ run' = Snapshot("install")
    /\ bkSym' = BackupFile(bkSym, symExists, symbols, now)
    /\ pc' = "i_backup_rules"
    /\ UNCHANGED <<symbols, symExists, rules, rulesExists, payload, bkRules,
                   now, log>>

\* install(): backup_file(RULES_FILE)
InstallBackupRules ==
    /\ pc = "i_backup_rules"
    /\ bkRules' = BackupFile(bkRules, rulesExists, rules, now)
    /\ pc' = "i_symbols"
    /\ UNCHANGED <<symbols, symExists, rules, rulesExists, payload, bkSym,
                   now, run, log>>

\* install(): read LAYOUT_FILE, append the block to SYMBOLS_FILE (mode 'a'
\* creates the file)
InstallSymbols ==
    /\ pc = "i_symbols"
    /\ symbols' = AppendBlock(symbols, payload)
    /\ symExists' = TRUE
    /\ pc' = "i_rules"
    /\ UNCHANGED <<rules, rulesExists, payload, bkSym, bkRules, now, run, log>>

\* install(): ET.parse, the loop over the layouts, tree.write
InstallRules ==
    /\ pc = "i_rules"
    /\ IF ~rulesExists
         THEN /\ UNCHANGED rules
              /\ Finish("FileNotFoundError", TRUE, FALSE, symbols, symExists,
                        rules)
         ELSE LET r == InstallXml(rules)
              IN  /\ rules' = r.doc
                  /\ Finish(r.outcome, TRUE, r.wrote, symbols, symExists, r.doc)
    /\ UNCHANGED <<symbols, symExists, rulesExists, payload, bkSym, bkRules,
                   now>>

\* uninstall(): ensure_root(), backup_file(SYMBOLS_FILE)
UninstallBackupSymbols ==
    /\ pc = "idle" /\ Len(log) < MaxOps
    /\ run' = Snapshot("uninstall")
    /\ bkSym' = BackupFile(bkSym, symExists, symbols, now)
    /\ pc' = "u_backup_rules"
    /\ UNCHANGED <<symbols, symExists, rules, rulesExists, payload, bkRules,
                   now, log>>

\* uninstall(): backup_file(RULES_FILE)
UninstallBackupRules ==
    /\ pc = "u_backup_rules"
    /\ bkRules' = BackupFile(bkRules, rulesExists, rules, now)
    /\ pc' = "u_symbols"
    /\ UNCHANGED <<symbols, symExists, rules, rulesExists, payload, bkSym,
                   now, run, log>>

\* uninstall(): read the lines of SYMBOLS_FILE, drop the marked ones, write
\* the file back; open(..., 'r') raises when the file is missing
UninstallSymbols ==
    /\ pc = "u_symbols"
    /\ IF ~symExists
         THEN /\ UNCHANGED <<symbols, rules>>
              /\ Finish("FileNotFoundError", FALSE, FALSE, symbols, symExists,
                        rules)
         ELSE /\ symbols' = RemoveBlock(symbols)
              /\ pc' = "u_rules"
              /\ UNCHANGED <<rules, run, log>>
    /\ UNCHANGED <<symExists, rulesExists, payload, bkSym, bkRules, now>>

\* uninstall(): ET.parse, the loop over the layouts, tree.write
UninstallRules ==
    /\ pc = "u_rules"
    /\ IF ~rulesExists
         THEN /\ UNCHANGED rules
              /\ Finish("FileNotFoundError", TRUE, FALSE, symbols, symExists,
                        rules)
         ELSE LET r == UninstallXml(rules)
              IN  /\ rules' = r.doc
                  /\ Finish(r.outcome, TRUE, r.wrote, symbols, symExists, r.doc)
    /\ UNCHANGED <<symbols, symExists, rulesExists, payload, bkSym, bkRules,
                   now>>

\* a second passes; the clock is read by backup_file only, so it is enough
\* to let it advance where a backup_file call comes next
Tick ==
    /\ now < MaxTime
    /\ \/ pc = "idle" /\ Len(log) < MaxOps
       \/ pc \in {"i_backup_rules", "u_backup_rules"}
    /\ now' = now + 1
    /\ UNCHANGED <<symbols, symExists, rules, rulesExists, payload, bkSym,
                   bkRules, pc, run, log>>

Next ==
    \/ InstallBackupSymbols
    \/ InstallBackupRules
    \/ InstallSymbols
    \/ InstallRules
    \/ UninstallBackupSymbols
    \/ UninstallBackupRules
    \/ UninstallSymbols
    \/ UninstallRules
    \/ Tick

Spec == Init /\ [][Next]_vars

\* ------------------------------------------------- vocabulary of the claims
RECURSIVE CountTok(_, _)
CountTok(text, tok) ==
    IF text = <<>> THEN 0
    ELSE (IF Head(text) = tok THEN 1 ELSE 0) + CountTok(Tail(text), tok)

\* all variantList children of a rules file, in document order
RECURSIVE AllKids(_)
AllKids(doc) == IF doc = <<>> THEN <<>> ELSE Head(doc).vl \o AllKids(Tail(doc))

NoMarker(text) ==
    ~HasTok(text, BEGIN_COMMENT_SYM) /\ ~HasTok(text, END_COMMENT_SYM)

NoMarkerNode(kids) ==
    ~HasTok(kids, CommentBegin) /\ ~HasTok(kids, CommentEnd)

\* no marker, or one start marker followed by one end marker
OnePairOrNone(s, b, e) ==
    \/ ~HasTok(s, b) /\ ~HasTok(s, e)
    \/ /\ CountTok(s, b) = 1 /\ CountTok(s, e) = 1
       /\ \E i, j \in DOMAIN s : i < j /\ s[i] = b /\ s[j] = e

\* index of the first line at or after line i that holds tok, 0 if none
RECURSIVE FirstLineWith(_, _, _)
FirstLineWith(lines, tok, i) ==
    IF i > Len(lines) THEN 0
    ELSE IF HasTok(lines[i], tok) THEN i
    ELSE FirstLineWith(lines, tok, i + 1)

IsPrefix(p, s) == Len(p) <= Len(s) /\ SubSeq(s, 1, Len(p)) = p

\* the runs of the history that started with both target files present
Runs(op) == {i \in DOMAIN log : log[i].op = op /\ log[i].symExisted
                                /\ log[i].rulesExisted}

\* ------------------------------------------------------------------ claims

\* C1: after any sequence of install() and uninstall() runs started from
\* target files without markers, each target file holds no marker or exactly
\* one start marker followed by exactly one end marker.
C1_OnePairOrNone ==
    (/\ pc = "idle" /\ log # <<>>
     /\ log[1].symExisted /\ log[1].rulesExisted
     /\ NoMarker(log[1].symBefore) /\ NoMarkerNode(AllKids(log[1].rulesBefore))
     /\ NoMarker(payload))
    => /\ OnePairOrNone(symbols, BEGIN_COMMENT_SYM, END_COMMENT_SYM)
       /\ OnePairOrNone(AllKids(rules), CommentBegin, CommentEnd)

\* C2: an install() run directly after a successful install(), on files that
\* carry the start marker, reports AlreadyApplied and leaves the symbols file
\* and the rules file as the first install() left them.
C2_SecondInstallRefused ==
    \A i \in Runs("install") :
        (/\ i > 1 /\ log[i - 1].op = "install" /\ log[i - 1].outcome = "ok"
         /\ HasTok(log[i].symBefore, BEGIN_COMMENT_SYM)
         /\ HasTok(AllKids(log[i].rulesBefore), CommentBegin))
        => /\ log[i].outcome = "AlreadyApplied"
           /\ log[i].symAfter = log[i].symBefore
           /\ log[i].rulesAfter = log[i].rulesBefore

\* C3: for a symbols file C without marker and a payload without marker,
\* install() followed by uninstall() leaves the symbols file equal to C.
C3_TextRoundTrip ==
    \A i \in Runs("install") :
        (/\ i < Len(log) /\ log[i + 1].op = "uninstall"
         /\ NoMarker(log[i].symBefore) /\ NoMarker(payload))
        => log[i + 1].symAfter = log[i].symBefore

\* C4: install() only adds to the end of the symbols file; uninstall()
\* removes only the lines from the first start-token line through the first
\* end-token line after it, and keeps every other line, in order.
C4_TextIsolation ==
    /\ \A i \in Runs("install") : IsPrefix(log[i].symBefore, log[i].symAfter)
    /\ \A i \in Runs("uninstall") :
          LET lines == readlines(log[i].symBefore)
              s == FirstLineWith(lines, BEGIN_COMMENT_SYM, 1)
              e == IF s = 0 THEN 0
                   ELSE FirstLineWith(lines, END_COMMENT_SYM, s + 1)
          IN  (s # 0 /\ e # 0 /\ NoMarker(payload))
              => log[i].symAfter =
                   writelines(SubSeq(lines, 1, s - 1)
                              \o SubSeq(lines, e + 1, Len(lines)))

\* C5: uninstall() on a symbols file whose start token has no end token
\* after it fails with CorruptBlock and leaves the symbols file as it was.
C5_CorruptBlockDetected ==
    \A i \in Runs("uninstall") :
        LET text == log[i].symBefore
        IN  (\E b \in DOMAIN text :
                /\ text[b] = BEGIN_COMMENT_SYM
                /\ \A j \in DOMAIN text : j > b => text[j] # END_COMMENT_SYM)
            => /\ log[i].outcome = "CorruptBlock"
               /\ log[i].symAfter = log[i].symBefore

\* C6: whenever a run changes the content of a target file, exactly one new
\* backup entry of that file was created earlier in that run, and it holds
\* the content the file has just before the change.
C6_BackupBeforeMutate ==
    [][/\ (symExists /\ symbols' # symbols)
          => LET new == DOMAIN bkSym \ DOMAIN run.bkSymBefore
             IN  Cardinality(new) = 1 /\ \A t \in new : bkSym[t] = symbols
       /\ (rulesExists /\ rules' # rules)
          => LET new == DOMAIN bkRules \ DOMAIN run.bkRulesBefore
             IN  Cardinality(new) = 1 /\ \A t \in new : bkRules[t] = rules
      ]_vars

\* C7: a backup entry, once created, is never deleted and never changes.
C7_BackupsAppendOnly ==
    [][/\ \A t \in DOMAIN bkSym :
             t \in DOMAIN bkSym' /\ bkSym'[t] = bkSym[t]
       /\ \A t \in DOMAIN bkRules :
             t \in DOMAIN bkRules' /\ bkRules'[t] = bkRules[t]
      ]_vars

\* C8: uninstall() on a symbols file without start token leaves the symbols
\* file content as it was, a stray end token included, and still runs the
\* rules-file step.
C8_BenignSkip ==
    \A i \in Runs("uninstall") :
        ~HasTok(log[i].symBefore, BEGIN_COMMENT_SYM)
        => log[i].symAfter = log[i].symBefore /\ log[i].rulesStep

\* C9: install() on a rules file without a layout named "us" ends in an
\* error and does not rewrite the rules file.
C9_TargetLayoutNotFound ==
    \A i \in Runs("install") :
        (\A k \in DOMAIN log[i].rulesBefore : log[i].rulesBefore[k].name # "us")
        => /\ log[i].outcome # "ok"
           /\ ~log[i].wroteRules
           /\ log[i].rulesAfter = log[i].rulesBefore

\* C10: when the variantList of the target layout holds children S without
\* marker comments, install() followed by uninstall() leaves that
\* variantList with exactly the children S.
C10_XmlRoundTrip ==
    \A i \in Runs("install") :
        LET before == log[i].rulesBefore
            t == FindUs(before, 1)
        IN  (/\ i < Len(log) /\ log[i + 1].op = "uninstall"
             /\ t # 0 /\ before[t].hasVl /\ NoMarkerNode(before[t].vl))
            => log[i + 1].rulesAfter[t].vl = before[t].vl

\* position of a name in the listing
PosIn(seq, x) == CHOOSE i \in DOMAIN seq : seq[i] = x

\* the run of the history that created the backup entry x
CreatedIn(x) ==
    CHOOSE i \in DOMAIN log :
        /\ x \in DirNames(log[i].bkSymAfter, log[i].bkRulesAfter)
        /\ \A j \in 1..(i - 1) :
              x \notin DirNames(log[j].bkSymAfter, log[j].bkRulesAfter)

\* entry x was created before entry y: in an earlier run, or in the same run,
\* where the symbols file is backed up first
CreatedBefore(x, y) ==
    \/ CreatedIn(x) < CreatedIn(y)
    \/ CreatedIn(x) = CreatedIn(y) /\ x[1] = "us" /\ y[1] = "evdev.xml"

\* C11: list_backups() prints the backup entries in the order of their
\* creation, whichever target file they belong to.
C11_ListingChronological ==
    pc = "idle"
    => \A x, y \in DirNames(bkSym, bkRules) :
          CreatedBefore(x, y)
          => PosIn(list_backups, x) < PosIn(list_backups, y)

\* C12: when the symbols file does not exist (and the rules file does), an
\* install() run creates no backup entry for it, surfaces the error and does
\* not create the file.
C12_MissingSourceSurfaced ==
    \A i \in DOMAIN log :
        (log[i].op = "install" /\ ~log[i].symExisted /\ log[i].rulesExisted)
        => /\ DOMAIN log[i].bkSymAfter = DOMAIN log[i].bkSymBefore
           /\ log[i].outcome # "ok"
           /\ ~log[i].symExists

\* the element children of a variantList (its comment children left out)
RECURSIVE Elements(_)
Elements(kids) ==
    IF kids = <<>> THEN <<>>
    ELSE (IF Head(kids) \in {CommentBegin, CommentEnd} THEN <<>>
          ELSE <<Head(kids)>>) \o Elements(Tail(kids))

IsUsEn(layout) == layout.name = "us" /\ layout.sd = "en"

\* C13: in a rules file that holds a layout named "us" with shortDescription
\* "en", install() and uninstall() leave the element children of every other
\* layout as they were, a layout named "us" with another shortDescription
\* included.
C13_OnlyUsEnMutated ==
    \A i \in Runs("install") \cup Runs("uninstall") :
        LET before == log[i].rulesBefore
            after == log[i].rulesAfter
        IN  (\E k \in DOMAIN before : IsUsEn(before[k]))
            => /\ Len(after) = Len(before)
               /\ \A k \in DOMAIN before :
                     ~IsUsEn(before[k])
                     => /\ after[k].hasVl = before[k].hasVl
                        /\ Elements(after[k].vl) = Elements(before[k].vl)

\* index of the first layout named "us", 0 if there is none
FirstNamedUs(doc) ==
    IF \E k \in DOMAIN doc : doc[k].name = "us"
      THEN CHOOSE k \in DOMAIN doc :
              doc[k].name = "us" /\ \A j \in 1..(k - 1) : doc[j].name # "us"
      ELSE 0

\* C13 (amended): install() and uninstall() mutate only the first layout
\* named "us", whatever its shortDescription; every other layout keeps its
\* name, its shortDescription and its element children, in order.
C13_OnlyFirstUsMutated ==
    \A i \in Runs("install") \cup Runs("uninstall") :
        LET before == log[i].rulesBefore
            after == log[i].rulesAfter
            t == FirstNamedUs(before)
        IN  /\ Len(after) = Len(before)
            /\ \A k \in DOMAIN before :
                  k # t
                  => /\ after[k].name = before[k].name
                     /\ after[k].sd = before[k].sd
                     /\ after[k].hasVl = before[k].hasVl
                     /\ Elements(after[k].vl) = Elements(before[k].vl)

\* an install() run on a rules file with two layouts named "us" has patched
\* the first one, and the other one has an element child
C13_Witness ==
    \E i \in Runs("install") :
        LET before == log[i].rulesBefore
            t == FirstNamedUs(before)
        IN  /\ log[i].outcome = "ok"
            /\ t # 0
            /\ log[i].rulesAfter[t].vl # before[t].vl
            /\ \E k \in DOMAIN before :
                  k # t /\ before[k].name = "us" /\ Elements(before[k].vl) # <<>>

\* the install() runs that patched a variantList: both files present, a
\* layout named "us" with a variantList, normal end
PatchedRuns ==
    {i \in Runs("install") :
        LET t == FirstNamedUs(log[i].rulesBefore)
        IN  t # 0 /\ log[i].rulesBefore[t].hasVl /\ log[i].outcome = "ok"}

\* C14: install() puts the start-marker comment, the variant element and the
\* end-marker comment, adjacent and in that order, at the END of the target
\* variantList, after every element child that was there, in their order.
C14_BlockAtEnd ==
    \A i \in PatchedRuns :
        LET t == FirstNamedUs(log[i].rulesBefore)
            old == Elements(log[i].rulesBefore[t].vl)
            vl == log[i].rulesAfter[t].vl
            n == Len(vl)
        IN  /\ n = Len(old) + 3
            /\ SubSeq(vl, 1, n - 3) = old
            /\ SubSeq(vl, n - 2, n) = <<CommentBegin, VARIANT_NAME, CommentEnd>>

\* C14 (amended): install() puts the three nodes, adjacent and in that
\* order, at the BEGINNING of the target variantList; every element child
\* that was there follows the end-marker comment, in the same order.
C14_BlockAtFront ==
    \A i \in PatchedRuns :
        LET t == FirstNamedUs(log[i].rulesBefore)
            old == Elements(log[i].rulesBefore[t].vl)
            vl == log[i].rulesAfter[t].vl
            n == Len(vl)
        IN  /\ n = Len(old) + 3
            /\ SubSeq(vl, 1, 3) = <<CommentBegin, VARIANT_NAME, CommentEnd>>
            /\ SubSeq(vl, 4, n) = old

\* an install() run has patched a variantList that held two different
\* element children
C14_Witness ==
    \E i \in PatchedRuns :
        LET t == FirstNamedUs(log[i].rulesBefore)
            old == Elements(log[i].rulesBefore[t].vl)
        IN  Len(old) >= 2 /\ old[1] # old[2]

\* C15: when the target variantList holds a start-marker comment with no
\* end-marker comment after it, uninstall() does not end normally and
\* removes no child of the variantList.
C15_XmlCorruptBlock ==
    \A i \in Runs("uninstall") :
        LET before == log[i].rulesBefore
            t == FirstNamedUs(before)
        IN  (/\ t # 0 /\ before[t].hasVl
             /\ \E b \in DOMAIN before[t].vl :
                   /\ before[t].vl[b] = CommentBegin
                   /\ \A j \in DOMAIN before[t].vl :
                         j > b => before[t].vl[j] # CommentEnd)
            => /\ log[i].outcome # "ok"
               /\ log[i].rulesAfter[t].vl = before[t].vl

\* the install() runs whose target layout has no variantList child
NoVlRuns ==
    {i \in Runs("install") :
        LET t == FirstNamedUs(log[i].rulesBefore)
        IN  t # 0 /\ ~log[i].rulesBefore[t].hasVl}

\* C16: when the layout matched as the target has no variantList child,
\* install() ends in an error (the AttributeError raised on the missing
\* variantList) and the rules file is neither written nor changed.
C16_NoVariantList ==
    \A i \in NoVlRuns :
        /\ log[i].outcome = "AttributeError"
        /\ ~log[i].wroteRules
        /\ log[i].rulesAfter = log[i].rulesBefore

\* such a run has ended, on a rules file holding a comment that a rewrite
\* would have lost
C16_Witness ==
    \E i \in NoVlRuns :
        /\ log[i].outcome # "ok"
        /\ HasTok(AllKids(log[i].rulesBefore), CommentBegin)

\* C17: started from target files without markers, with a layout named "us"
\* that has a variantList, after any sequence of finished runs the symbols
\* file holds a start marker if and only if the target variantList does.
C17_CrossFileAgreement ==
    (/\ pc = "idle" /\ log # <<>>
     /\ log[1].symExisted /\ log[1].rulesExisted
     /\ NoMarker(log[1].symBefore) /\ NoMarker(payload)
     /\ NoMarkerNode(AllKids(log[1].rulesBefore))
     /\ FirstNamedUs(log[1].rulesBefore) # 0
     /\ log[1].rulesBefore[FirstNamedUs(log[1].rulesBefore)].hasVl)
    => (HasTok(symbols, BEGIN_COMMENT_SYM)
        <=> HasTok(rules[FirstNamedUs(rules)].vl, CommentBegin))

\* a is b with some of its elements left out
RECURSIVE IsSubseq(_, _)
IsSubseq(a, b) ==
    IF a = <<>> THEN TRUE
    ELSE IF b = <<>> THEN FALSE
    ELSE IF Head(a) = Head(b) THEN IsSubseq(Tail(a), Tail(b))
    ELSE IsSubseq(a, Tail(b))

\* the uninstall() runs that rewrote the symbols file
StripRuns == {i \in DOMAIN log : log[i].op = "uninstall" /\ log[i].symExisted}

\* C18: whatever the symbols file held (a block, a start token without end
\* token, several blocks), after uninstall() it holds neither token, and its
\* lines are lines it had before, in the same order.
C18_MarkersCleared ==
    \A i \in StripRuns :
        /\ NoMarker(log[i].symAfter)
        /\ IsSubseq(readlines(log[i].symAfter), readlines(log[i].symBefore))

\* an uninstall() run has stripped a symbols file that held two start tokens
\* and an end token, and has kept some of its lines
C18_Witness ==
    \E i \in StripRuns :
        /\ CountTok(log[i].symBefore, BEGIN_COMMENT_SYM) >= 2
        /\ HasTok(log[i].symBefore, END_COMMENT_SYM)
        /\ log[i].symAfter # <<>>
        /\ log[i].symAfter # log[i].symBefore

====
